---- MODULE Spec2Model ----
(***************************************************************************)
(* Model of data_visualization.py: a Streamlit page that reads a CSV file  *)
(* into a DataFrame, lets the user pick a chart type, columns and styling, *)
(* builds a plotly figure and renders it.                                  *)
(*                                                                         *)
(* Python values are encoded as follows.                                   *)
(*   None (a column name, a title)   the string None                       *)
(*   None (a figure)                 NoneFig                               *)
(*   a DataFrame                     a sequence of columns, each a record  *)
(*                                   [name, dtype, values]                 *)
(*   a cell of a column              [null, num, text]: NaN, a number or   *)
(*                                   a string                              *)
(*   the donut hole size             hundredths (0.1 is 10)                *)
(*   an entry of DataFrame.corr()    [nan, num, den2]: NaN, or the number  *)
(*                                   num / sqrt(den2)                      *)
(***************************************************************************)
EXTENDS Integers, Sequences, FiniteSets, TLC

VARIABLES
    pc,            \* position in main(), or "call"/"returned" for a direct call
    called,        \* the function being run: "main" or the function called directly
    df,            \* the DataFrame (NoFile: nothing uploaded)
    preview,       \* the 'Show Data Preview' checkbox
    chart_title,   \* title argument
    color_scheme,  \* palette name argument
    chart_type,    \* chart type argument
    x_col,         \* x axis column argument
    y_col,         \* y axis column argument
    fig,           \* the figure being built / styled, NoneFig when absent
    ret,           \* the value returned by get_color_scale
    messages,      \* text shown to the user by st.write / st.warning / st.info
    rendered,      \* the figure handed to st.plotly_chart, NoneFig when none
    trace,         \* calls made so far in this run, in order
    prevFailed     \* history: the previous run of main() ended in a diagnostic

vars == <<pc, called, df, preview, chart_title, color_scheme, chart_type,
          x_col, y_col, fig, ret, messages, rendered, trace, prevFailed>>

(***************************************************************************)
(* Bounds of the model.                                                    *)
(***************************************************************************)
MaxRows == 3      \* rows of a DataFrame passed directly to a function
MaxCsvRows == 1   \* data rows of an uploaded CSV file
MaxApply == 2     \* successive direct applications of the style to one figure

(***************************************************************************)
(* Python values.                                                          *)
(***************************************************************************)
None == "None"

Truthy(v) == v # None /\ v # ""

EmptyMatrix == [p \in {} |-> 0]

NoneFig ==
    [kind |-> None, x |-> None, y |-> None, text |-> None, param |-> 0,
     z |-> EmptyMatrix, title |-> None, colorway |-> <<>>]

FigTruthy(f) == f.kind # None

NoFile == <<>>

\* The header of every DataFrame of the model is a prefix of these names.
\* pd.read_csv names every column by a distinct non-empty string.
ColumnNames == <<"A", "B">>

NaNCell == [null |-> TRUE, num |-> 0, text |-> ""]

NumCell(n) == [null |-> FALSE, num |-> n, text |-> ""]

TextCell(s) == [null |-> FALSE, num |-> 0, text |-> s]

NumCells == {NaNCell, NumCell(1), NumCell(2)}

TextCells == {NaNCell, TextCell("a")}

SeqsOfLen(S, n) == [1..n -> S]

\* np.number dtypes are "number"; everything else read from a CSV is "object".
ColumnsOf(name, r) ==
    {[name |-> name, dtype |-> "number", values |-> v] : v \in SeqsOfLen(NumCells, r)}
    \cup
    {[name |-> name, dtype |-> "object", values |-> v] : v \in SeqsOfLen(TextCells, r)}

\* All DataFrames of c columns and r rows; column i is named ColumnNames[i].
RECURSIVE Frames(_, _)
Frames(c, r) ==
    IF c = 0 THEN {<<>>}
    ELSE {Append(f, col) : f \in Frames(c - 1, r), col \in ColumnsOf(ColumnNames[c], r)}

DataFrames == UNION {Frames(c, r) : c \in 1..Len(ColumnNames), r \in 0..MaxRows}

\* What pd.read_csv yields: at least one column (it raises otherwise), and
\* a file with a header but no data rows has only object columns.
CsvFrames ==
    {f \in UNION {Frames(c, r) : c \in 1..Len(ColumnNames), r \in 0..MaxCsvRows} :
        \A i \in DOMAIN f : Len(f[i].values) = 0 => f[i].dtype = "object"}

columns(d) == {d[i].name : i \in DOMAIN d}

Column(d, name) == d[CHOOSE i \in DOMAIN d : d[i].name = name]

NRows(d) == IF Len(d) = 0 THEN 0 ELSE Len(d[1].values)

\* df[col].isnull().any()
isnull_any(d, name) ==
    \E k \in DOMAIN Column(d, name).values : Column(d, name).values[k].null

\* df.select_dtypes(include=[np.number])
select_dtypes_number(d) == SelectSeq(d, LAMBDA c : c.dtype = "number")

\* DataFrame.empty: any axis of length 0
empty(d) == Len(d) = 0 \/ NRows(d) = 0

(***************************************************************************)
(* DataFrame.corr(): Pearson correlation of every pair of columns over the *)
(* rows where both are present.  With n such rows the correlation is       *)
(*   (n*Sxy - Sx*Sy) / sqrt((n*Sxx - Sx^2) * (n*Syy - Sy^2))               *)
(* and NaN when the divisor is 0 (fewer than two rows, or a constant       *)
(* column).                                                                *)
(***************************************************************************)
Paired(a, b) == {k \in DOMAIN a : ~a[k].null /\ ~b[k].null}

RECURSIVE Sum(_, _)
Sum(K, f) ==
    IF K = {} THEN 0
    ELSE LET k == CHOOSE i \in K : TRUE IN f[k] + Sum(K \ {k}, f)

NaNEntry == [nan |-> TRUE, num |-> 0, den2 |-> 0]

Pearson(a, b) ==
    LET K   == Paired(a, b)
        n   == Cardinality(K)
        Sx  == Sum(K, [k \in K |-> a[k].num])
        Sy  == Sum(K, [k \in K |-> b[k].num])
        Sxy == Sum(K, [k \in K |-> a[k].num * b[k].num])
        Sxx == Sum(K, [k \in K |-> a[k].num * a[k].num])
        Syy == Sum(K, [k \in K |-> b[k].num * b[k].num])
        cov == n * Sxy - Sx * Sy
        vx  == n * Sxx - Sx * Sx
        vy  == n * Syy - Sy * Sy
    IN  IF vx * vy = 0 THEN NaNEntry
        ELSE [nan |-> FALSE, num |-> cov, den2 |-> vx * vy]

corr(d) ==
    [p \in columns(d) \X columns(d) |->
        Pearson(Column(d, p[1]).values, Column(d, p[2]).values)]

(***************************************************************************)
(* plotly.express.colors.sequential: the six palettes the page offers.     *)
(***************************************************************************)
px_colors_sequential ==
    [Plotly3 |-> <<"#0508b8", "#1910d8", "#3c19f0", "#6b1cfb", "#981cfd", "#bf1cfd",
                   "#dd2bfd", "#f246fe", "#fc67fd", "#fe88fc", "#fea5fd", "#febefe",
                   "#fec3fe">>,
     Plasma  |-> <<"#0d0887", "#46039f", "#7201a8", "#9c179e", "#bd3786", "#d8576b",
                   "#ed7953", "#fb9f3a", "#fdca26", "#f0f921">>,
     Viridis |-> <<"#440154", "#482878", "#3e4989", "#31688e", "#26828e", "#1f9e89",
                   "#35b779", "#6ece58", "#b5de2b", "#fde725">>,
     Cividis |-> <<"#00224e", "#123570", "#3b496c", "#575d6d", "#707173", "#8a8678",
                   "#a59c74", "#c3b369", "#e1cc55", "#fee838">>,
     Inferno |-> <<"#000004", "#1b0c41", "#4a0c6b", "#781c6d", "#a52c60", "#cf4446",
                   "#ed6925", "#fb9b06", "#f7d13d", "#fcffa4">>,
     Magma   |-> <<"#000004", "#180f3d", "#440f76", "#721f81", "#9e2f7f", "#cd4071",
                   "#f1605d", "#fd9668", "#feca8d", "#fcfdbf">>]

\* dict.get(key, default)
dict_get(d, key, default) == IF key \in DOMAIN d THEN d[key] ELSE default

color_scales ==
    [Plotly3 |-> px_colors_sequential.Plotly3,
     Plasma  |-> px_colors_sequential.Plasma,
     Viridis |-> px_colors_sequential.Viridis,
     Cividis |-> px_colors_sequential.Cividis,
     Inferno |-> px_colors_sequential.Inferno,
     Magma   |-> px_colors_sequential.Magma]

\* mutant: the fallback is another palette
get_color_scale_default_viridis(scheme) ==
    dict_get(color_scales, scheme, px_colors_sequential.Viridis)

get_color_scale(scheme) == dict_get(color_scales, scheme, px_colors_sequential.Plotly3)

(***************************************************************************)
(* The widgets.                                                            *)
(***************************************************************************)
ColorSchemeOptions == {"Plotly3", "Plasma", "Viridis", "Cividis", "Inferno", "Magma"}

ChartTypeOptions == {"Line Chart", "Bar Chart", "Pie Chart", "Heatmap"}

DefaultTitle == "My Chart"

\* st.text_input("Chart Title", "My Chart"): the default or what the user typed
TitleInputs == {DefaultTitle, "Sales"}

LineWidthMin == 1
LineWidthMax == 10
LineWidthDefault == 2
HoleMin == 0
HoleMax == 50
HoleDefault == 10

\* the positions of the two sliders the model's user moves them to
LineWidthInputs == {LineWidthMin, LineWidthDefault, LineWidthMax}

HoleInputs == {HoleMin, HoleDefault, HoleMax}

DefaultSt == [line_width |-> LineWidthDefault, hole |-> HoleDefault]

SliderInputs == [line_width : LineWidthInputs, hole : HoleInputs]

\* st.slider(label, min, max, default): the widget's current value, kept in range
st_slider(lo, hi, value) == IF value < lo THEN lo ELSE IF value > hi THEN hi ELSE value

Call(op, x, y) == [op |-> op, x |-> x, y |-> y]

(***************************************************************************)
(* The chart builders.  Each returns [fig, messages, trace]: the figure or *)
(* NoneFig, what it wrote to the page, and the calls it made.  The first   *)
(* parameter w holds the positions of the sliders on the page, which the   *)
(* builders read through st.slider.  The px functions are taken to return  *)
(* a figure for every DataFrame and every column of it.                    *)
(***************************************************************************)
Figure(kind, x, y, text, param, z) ==
    [kind |-> kind, x |-> x, y |-> y, text |-> text, param |-> param,
     z |-> z, title |-> None, colorway |-> <<>>]

Returns(f, msgs, calls) ==
    [fig |-> f, messages |-> msgs, trace |-> calls, raised |-> None]

generate_line_chart(w, d, x, y) ==
    LET line_width == st_slider(LineWidthMin, LineWidthMax, w.line_width)
    IN  Returns(Figure("line", x, y, None, line_width, EmptyMatrix),
                <<>>,
                <<Call("generate_line_chart", x, y),
                  Call("st.slider Line Width", None, None),
                  Call("px.line", x, y)>>)

generate_bar_chart(w, d, x, y) ==
    Returns(Figure("bar", x, y, y, 0, EmptyMatrix),
            <<>>,
            <<Call("generate_bar_chart", x, y), Call("px.bar", x, y)>>)

\* mutant: the NaN check needs both columns to hold a missing value
generate_pie_chart_both_nan(w, d, x, y) ==
    IF Truthy(x) /\ Truthy(y)
    THEN IF isnull_any(d, x) /\ isnull_any(d, y)
         THEN Returns(NoneFig,
                      <<"The selected columns for the pie chart contain NaN values.">>,
                      <<Call("generate_pie_chart", x, y)>>)
         ELSE LET hole == st_slider(HoleMin, HoleMax, w.hole)
              IN  Returns(Figure("pie", x, y, None, hole, EmptyMatrix),
                          <<>>,
                          <<Call("generate_pie_chart", x, y),
                            Call("st.slider Donut Hole Size", None, None),
                            Call("px.pie", x, y)>>)
    ELSE Returns(NoneFig,
                 <<"Please select appropriate columns for the pie chart.">>,
                 <<Call("generate_pie_chart", x, y)>>)

\* mutant: names and values are exchanged in the call of px.pie
generate_pie_chart_swapped(w, d, x, y) ==
    IF Truthy(x) /\ Truthy(y)
    THEN IF isnull_any(d, x) \/ isnull_any(d, y)
         THEN Returns(NoneFig,
                      <<"The selected columns for the pie chart contain NaN values.">>,
                      <<Call("generate_pie_chart", x, y)>>)
         ELSE LET hole == st_slider(HoleMin, HoleMax, w.hole)
              IN  Returns(Figure("pie", y, x, None, hole, EmptyMatrix),
                          <<>>,
                          <<Call("generate_pie_chart", x, y),
                            Call("st.slider Donut Hole Size", None, None),
                            Call("px.pie", y, x)>>)
    ELSE Returns(NoneFig,
                 <<"Please select appropriate columns for the pie chart.">>,
                 <<Call("generate_pie_chart", x, y)>>)

\* mutant: on missing values the half-built figure (no names, no values, no
\* hole) is returned instead of None
generate_pie_chart_partial(w, d, x, y) ==
    IF Truthy(x) /\ Truthy(y)
    THEN IF isnull_any(d, x) \/ isnull_any(d, y)
         THEN Returns(Figure("pie", None, None, None, 0, EmptyMatrix),
                      <<"The selected columns for the pie chart contain NaN values.">>,
                      <<Call("generate_pie_chart", x, y)>>)
         ELSE LET hole == st_slider(HoleMin, HoleMax, w.hole)
              IN  Returns(Figure("pie", x, y, None, hole, EmptyMatrix),
                          <<>>,
                          <<Call("generate_pie_chart", x, y),
                            Call("st.slider Donut Hole Size", None, None),
                            Call("px.pie", x, y)>>)
    ELSE Returns(NoneFig,
                 <<"Please select appropriate columns for the pie chart.">>,
                 <<Call("generate_pie_chart", x, y)>>)

generate_pie_chart(w, d, x, y) ==
    IF Truthy(x) /\ Truthy(y)
    THEN IF isnull_any(d, x) \/ isnull_any(d, y)
         THEN Returns(NoneFig,
                      <<"The selected columns for the pie chart contain NaN values.">>,
                      <<Call("generate_pie_chart", x, y)>>)
         ELSE LET hole == st_slider(HoleMin, HoleMax, w.hole)
              IN  Returns(Figure("pie", x, y, None, hole, EmptyMatrix),
                          <<>>,
                          <<Call("generate_pie_chart", x, y),
                            Call("st.slider Donut Hole Size", None, None),
                            Call("px.pie", x, y)>>)
    ELSE Returns(NoneFig,
                 <<"Please select appropriate columns for the pie chart.">>,
                 <<Call("generate_pie_chart", x, y)>>)

\* DataFrame.fillna(0)
fillna0(d) ==
    [i \in DOMAIN d |->
        [d[i] EXCEPT !.values =
            [k \in DOMAIN d[i].values |->
                IF d[i].values[k].null THEN NumCell(0) ELSE d[i].values[k]]]]

\* mutant: missing values are replaced by 0 before the correlation
generate_heatmap_fillna(w, d) ==
    LET numeric_df == select_dtypes_number(d)
    IN  IF empty(numeric_df)
        THEN Returns(NoneFig,
                     <<"No numeric columns available for heatmap.">>,
                     <<Call("generate_heatmap", None, None)>>)
        ELSE Returns(Figure("imshow", None, None, "auto", 0, corr(fillna0(numeric_df))),
                     <<>>,
                     <<Call("generate_heatmap", None, None),
                       Call("px.imshow", None, None)>>)

generate_heatmap(w, d) ==
    LET numeric_df == select_dtypes_number(d)
    IN  IF empty(numeric_df)
        THEN Returns(NoneFig,
                     <<"No numeric columns available for heatmap.">>,
                     <<Call("generate_heatmap", None, None)>>)
        ELSE Returns(Figure("imshow", None, None, "auto", 0, corr(numeric_df)),
                     <<>>,
                     <<Call("generate_heatmap", None, None),
                       Call("px.imshow", None, None)>>)

\* mutant: the bar branch calls the line builder
generate_chart_bar_as_line(w, d, type, x, y) ==
    IF type = "Line Chart" THEN generate_line_chart(w, d, x, y)
    ELSE IF type = "Bar Chart" THEN generate_line_chart(w, d, x, y)
    ELSE IF type = "Pie Chart" THEN generate_pie_chart(w, d, x, y)
    ELSE IF type = "Heatmap" THEN generate_heatmap(w, d)
    ELSE [fig |-> NoneFig, messages |-> <<>>, trace |-> <<>>,
          raised |-> "UnboundLocalError"]

\* An if/elif chain with no else: any other chart type leaves fig unbound.
generate_chart(w, d, type, x, y) ==
    IF type = "Line Chart" THEN generate_line_chart(w, d, x, y)
    ELSE IF type = "Bar Chart" THEN generate_bar_chart(w, d, x, y)
    ELSE IF type = "Pie Chart" THEN generate_pie_chart(w, d, x, y)
    ELSE IF type = "Heatmap" THEN generate_heatmap(w, d)
    ELSE [fig |-> NoneFig, messages |-> <<>>, trace |-> <<>>,
          raised |-> "UnboundLocalError"]

\* mutant: the layout is updated without the test of fig
apply_chart_customizations_unguarded(f, title, scheme) ==
    [fig   |-> [f EXCEPT !.title = title, !.colorway = get_color_scale(scheme)],
     trace |-> <<Call("get_color_scale", scheme, None),
                 Call("fig.update_layout", title, scheme)>>]

\* mutant: a title that is already set is kept
apply_chart_customizations_keep_title(f, title, scheme) ==
    IF FigTruthy(f)
    THEN [fig   |-> [f EXCEPT !.title = IF f.title = None THEN title ELSE f.title,
                              !.colorway = get_color_scale(scheme)],
          trace |-> <<Call("get_color_scale", scheme, None),
                      Call("fig.update_layout", title, scheme)>>]
    ELSE [fig |-> f, trace |-> <<>>]

\* fig.update_layout(title=..., colorway=...) when fig is not None
apply_chart_customizations(f, title, scheme) ==
    IF FigTruthy(f)
    THEN [fig   |-> [f EXCEPT !.title = title, !.colorway = get_color_scale(scheme)],
          trace |-> <<Call("get_color_scale", scheme, None),
                      Call("fig.update_layout", title, scheme)>>]
    ELSE [fig |-> f, trace |-> <<>>]

\* st.selectbox(label, options): the option the user picked; None without options
st_selectbox(options, picked) == IF picked \in options THEN picked ELSE None

get_axes(d, type, pickx, picky) ==
    IF type # "Heatmap"
    THEN <<st_selectbox(columns(d), pickx), st_selectbox(columns(d), picky)>>
    ELSE <<None, None>>

(***************************************************************************)
(* main(): one run of the script, top to bottom.  Streamlit runs it anew   *)
(* on every user interaction; the widgets return what the user has set.    *)
(***************************************************************************)
Init ==
    /\ pc = "start"
    /\ called = "main"
    /\ df = NoFile
    /\ preview = FALSE
    /\ chart_title = None
    /\ color_scheme = None
    /\ chart_type = None
    /\ x_col = None
    /\ y_col = None
    /\ fig = NoneFig
    /\ ret = <<>>
    /\ messages = <<>>
    /\ rendered = NoneFig
    /\ trace = <<>>
    /\ prevFailed = FALSE

\* lines 22-31 and 45-46: the file uploader and the preview checkbox
Upload ==
    /\ pc = "start"
    /\ called = "main"
    /\ \/ /\ df' = NoFile
          /\ preview' = FALSE
          /\ messages' = Append(messages, "Please upload a CSV file to proceed.")
          /\ pc' = "done"
       \/ \E f \in CsvFrames, p \in BOOLEAN :
            /\ df' = f
            /\ preview' = p
            /\ messages' = IF p THEN messages \o <<"Dataframe Preview:", "df.head()">>
                                 ELSE messages
            /\ pc' = "sidebar"
    /\ UNCHANGED <<called, chart_title, color_scheme, chart_type, x_col, y_col,
                   fig, ret, rendered, trace, prevFailed>>

\* lines 33-35: get_chart_customizations_sidebar and the chart type
Sidebar ==
    /\ pc = "sidebar"
    /\ \E t \in TitleInputs, c \in ColorSchemeOptions, k \in ChartTypeOptions :
            /\ chart_title' = t
            /\ color_scheme' = c
            /\ chart_type' = k
    /\ pc' = "axes"
    /\ UNCHANGED <<called, df, preview, x_col, y_col, fig, ret, messages,
                   rendered, trace, prevFailed>>

\* line 38
Axes ==
    /\ pc = "axes"
    /\ \E pickx \in columns(df), picky \in columns(df) :
         LET axes == IF chart_type # "Heatmap"
                     THEN get_axes(df, chart_type, pickx, picky)
                     ELSE <<None, None>>
         IN  /\ x_col' = axes[1]
             /\ y_col' = axes[2]
             /\ trace' = IF chart_type # "Heatmap"
                         THEN Append(trace, Call("get_axes", axes[1], axes[2]))
                         ELSE trace
    /\ pc' = "generate"
    /\ UNCHANGED <<called, df, preview, chart_title, color_scheme, chart_type,
                   fig, ret, messages, rendered, prevFailed>>

\* line 39
Generate ==
    /\ pc = "generate"
    /\ \E w \in SliderInputs :
         LET r == generate_chart(w, df, chart_type, x_col, y_col)
         IN  /\ fig' = r.fig
             /\ messages' = messages \o r.messages
             /\ trace' = Append(trace, Call("generate_chart", x_col, y_col)) \o r.trace
             /\ pc' = IF r.raised # None THEN "raised" ELSE "finish"
    /\ UNCHANGED <<called, df, preview, chart_title, color_scheme, chart_type,
                   x_col, y_col, ret, rendered, prevFailed>>

\* lines 40-44
Finish ==
    /\ pc = "finish"
    /\ IF FigTruthy(fig)
       THEN LET a == apply_chart_customizations(fig, chart_title, color_scheme)
            IN  /\ fig' = a.fig
                /\ rendered' = a.fig
                /\ trace' = Append(trace, Call("apply_chart_customizations",
                                               chart_title, color_scheme))
                            \o a.trace \o <<Call("st.plotly_chart", None, None)>>
                /\ UNCHANGED messages
       ELSE /\ messages' = Append(messages,
                                  "Please select appropriate data for the chart.")
            /\ UNCHANGED <<fig, rendered, trace>>
    /\ pc' = "done"
    /\ UNCHANGED <<called, df, preview, chart_title, color_scheme, chart_type,
                   x_col, y_col, ret, prevFailed>>

\* mutant: what the previous run wrote stays on the page
Rerun_keeps_messages ==
    /\ pc = "done"
    /\ called = "main"
    /\ prevFailed' = (df # NoFile /\ ~FigTruthy(fig))
    /\ pc' = "start"
    /\ df' = NoFile
    /\ preview' = FALSE
    /\ chart_title' = None
    /\ color_scheme' = None
    /\ chart_type' = None
    /\ x_col' = None
    /\ y_col' = None
    /\ fig' = NoneFig
    /\ rendered' = NoneFig
    /\ trace' = <<>>
    /\ UNCHANGED <<called, ret, messages>>

\* The next user interaction: the script runs again from the top with fresh
\* locals and a cleared page.  What the widgets return in the new run (the
\* file included) is chosen anew by Upload, Sidebar, Axes and Generate.
Rerun ==
    /\ pc = "done"
    /\ called = "main"
    /\ prevFailed' = (df # NoFile /\ ~FigTruthy(fig))
    /\ pc' = "start"
    /\ df' = NoFile
    /\ preview' = FALSE
    /\ chart_title' = None
    /\ color_scheme' = None
    /\ chart_type' = None
    /\ x_col' = None
    /\ y_col' = None
    /\ fig' = NoneFig
    /\ messages' = <<>>
    /\ rendered' = NoneFig
    /\ trace' = <<>>
    /\ UNCHANGED <<called, ret>>

Next == Upload \/ Sidebar \/ Axes \/ Generate \/ Finish \/ Rerun

Spec == Init /\ [][Next]_vars

(***************************************************************************)
(* The builders and the dispatcher called directly, on any DataFrame and   *)
(* any axis arguments (None included).                                     *)
(***************************************************************************)
InitBuild ==
    /\ pc = "call"
    /\ called = None
    /\ df \in DataFrames
    /\ preview = FALSE
    /\ chart_title = None
    /\ color_scheme = None
    /\ chart_type = None
    /\ x_col = None
    /\ y_col = None
    /\ fig = NoneFig
    /\ ret = <<>>
    /\ messages = <<>>
    /\ rendered = NoneFig
    /\ trace = <<>>
    /\ prevFailed = FALSE

AxisArgs(d) == columns(d) \cup {None}

Return(name, r) ==
    /\ called' = name
    /\ fig' = r.fig
    /\ messages' = r.messages
    /\ trace' = r.trace
    /\ pc' = IF r.raised # None THEN "raised" ELSE "returned"

CallPie ==
    /\ pc = "call"
    /\ df # NoFile
    /\ \E w \in SliderInputs, x \in AxisArgs(df), y \in AxisArgs(df) :
            /\ x_col' = x
            /\ y_col' = y
            /\ Return("generate_pie_chart", generate_pie_chart(w, df, x, y))
    /\ chart_type' = "Pie Chart"
    /\ UNCHANGED <<df, preview, chart_title, color_scheme, ret, rendered, prevFailed>>

CallHeatmap ==
    /\ pc = "call"
    /\ df # NoFile
    /\ \E w \in SliderInputs :
            Return("generate_heatmap", generate_heatmap(w, df))
    /\ chart_type' = "Heatmap"
    /\ UNCHANGED <<df, preview, chart_title, color_scheme, x_col, y_col, ret,
                   rendered, prevFailed>>

CallGenerateChart ==
    /\ pc = "call"
    /\ df # NoFile
    /\ \E w \in SliderInputs, k \in ChartTypeOptions,
          x \in AxisArgs(df), y \in AxisArgs(df) :
            /\ chart_type' = k
            /\ x_col' = x
            /\ y_col' = y
            /\ Return("generate_chart", generate_chart(w, df, k, x, y))
    /\ UNCHANGED <<df, preview, chart_title, color_scheme, ret, rendered, prevFailed>>

NextBuild == CallPie \/ CallHeatmap \/ CallGenerateChart

BuildSpec == InitBuild /\ [][NextBuild]_vars

(***************************************************************************)
(* get_color_scale and apply_chart_customizations called directly: on no   *)
(* figure and on figures the builders make, with any title and any palette *)
(* name, up to MaxApply times in a row on the same figure.                 *)
(***************************************************************************)
StyleTitles == TitleInputs \cup {""}

StyleSchemes == ColorSchemeOptions \cup {"not-a-real-name", "viridis", "", None}

StyleFigures ==
    {NoneFig,
     Figure("line", "A", "B", None, LineWidthDefault, EmptyMatrix),
     Figure("bar", "A", "B", "B", 0, EmptyMatrix),
     Figure("pie", "A", "B", None, HoleDefault, EmptyMatrix),
     Figure("imshow", None, None, "auto", 0,
            [p \in {"A"} \X {"A"} |-> NaNEntry])}

InitStyle ==
    /\ pc = "call"
    /\ called = None
    /\ df = NoFile
    /\ preview = FALSE
    /\ chart_title = None
    /\ color_scheme = None
    /\ chart_type = None
    /\ x_col = None
    /\ y_col = None
    /\ fig \in StyleFigures
    /\ ret = <<>>
    /\ messages = <<>>
    /\ rendered = NoneFig
    /\ trace = <<>>
    /\ prevFailed = FALSE

Applications(calls) ==
    Len(SelectSeq(calls, LAMBDA c : c.op = "apply_chart_customizations"))

CallGetColorScale ==
    /\ pc = "call"
    /\ df = NoFile
    /\ \E c \in StyleSchemes :
            /\ color_scheme' = c
            /\ ret' = get_color_scale(c)
    /\ called' = "get_color_scale"
    /\ pc' = "returned"
    /\ UNCHANGED <<df, preview, chart_title, chart_type, x_col, y_col, fig,
                   messages, rendered, trace, prevFailed>>

CallApply ==
    /\ \/ pc = "call" /\ df = NoFile
       \/ pc = "returned" /\ called = "apply_chart_customizations"
    /\ Applications(trace) < MaxApply
    /\ \E t \in StyleTitles, c \in StyleSchemes :
         LET a == apply_chart_customizations(fig, t, c)
         IN  /\ chart_title' = t
             /\ color_scheme' = c
             /\ fig' = a.fig
             /\ trace' = Append(trace, Call("apply_chart_customizations", t, c))
                         \o a.trace
    /\ called' = "apply_chart_customizations"
    /\ pc' = "returned"
    /\ UNCHANGED <<df, preview, chart_type, x_col, y_col, ret, messages,
                   rendered, prevFailed>>

NextStyle == CallGetColorScale \/ CallApply

StyleSpec == InitStyle /\ [][NextStyle]_vars

\* main() together with direct calls of the dispatcher, and main() together
\* with direct calls of the style functions
DispatchSpec == (Init \/ InitBuild) /\ [][Next \/ CallGenerateChart]_vars

StyleMainSpec == (Init \/ InitStyle) /\ [][Next \/ NextStyle]_vars

(***************************************************************************)
(* Vocabulary of the properties.                                           *)
(***************************************************************************)
BuilderOps ==
    {"generate_line_chart", "generate_bar_chart", "generate_pie_chart",
     "generate_heatmap"}

BuilderOf(type) ==
    CASE type = "Line Chart" -> "generate_line_chart"
      [] type = "Bar Chart"  -> "generate_bar_chart"
      [] type = "Pie Chart"  -> "generate_pie_chart"
      [] type = "Heatmap"    -> "generate_heatmap"
      [] OTHER               -> None

BuilderCalls(calls) == SelectSeq(calls, LAMBDA c : c.op \in BuilderOps)

CallsOf(calls, op) == SelectSeq(calls, LAMBDA c : c.op = op)

Made(calls, op) == \E i \in DOMAIN calls : calls[i].op = op

DiagnosticTexts ==
    {"The selected columns for the pie chart contain NaN values.",
     "Please select appropriate columns for the pie chart.",
     "No numeric columns available for heatmap.",
     "Please select appropriate data for the chart."}

Diagnostics(msgs) == SelectSeq(msgs, LAMBDA m : m \in DiagnosticTexts)

NumericNames(d) == {d[i].name : i \in {j \in DOMAIN d : d[j].dtype = "number"}}

HasMissing(d, name) ==
    \E i \in DOMAIN d : d[i].name = name /\ \E k \in DOMAIN d[i].values : d[i].values[k].null

PieReturned ==
    /\ pc = "returned"
    /\ \/ called = "generate_pie_chart"
       \/ called = "generate_chart" /\ chart_type = "Pie Chart"

HeatmapReturned ==
    /\ pc = "returned"
    /\ \/ called = "generate_heatmap"
       \/ called = "generate_chart" /\ chart_type = "Heatmap"

\* C1: whenever the pie builder is given two set columns of which one holds a
\* missing value, it returns no figure, writes a diagnostic, and reaches
\* neither the hole-size slider nor px.pie.
C1_PieRejectsMissingValues ==
    (/\ PieReturned
     /\ x_col # None
     /\ y_col # None
     /\ HasMissing(df, x_col) \/ HasMissing(df, y_col))
    => /\ fig = NoneFig
       /\ Len(Diagnostics(messages)) >= 1
       /\ ~Made(trace, "px.pie")
       /\ ~Made(trace, "st.slider Donut Hole Size")

C1_Witness ==
    /\ PieReturned
    /\ x_col # None
    /\ y_col # None
    /\ x_col # y_col
    /\ ~HasMissing(df, x_col)
    /\ HasMissing(df, y_col)
    /\ fig = NoneFig

\* C4: whenever the pie builder is given two column names of the DataFrame
\* (possibly the same one) and neither column holds a missing value, it
\* returns a pie figure with names = x, values = y and the slider's hole
\* size, which lies in [HoleMin, HoleMax], and writes nothing.
C4_PieBuildsChart ==
    (/\ PieReturned
     /\ x_col \in columns(df)
     /\ y_col \in columns(df)
     /\ ~HasMissing(df, x_col)
     /\ ~HasMissing(df, y_col))
    => /\ fig.kind = "pie"
       /\ fig.x = x_col
       /\ fig.y = y_col
       /\ fig.param \in HoleMin..HoleMax
       /\ Made(trace, "st.slider Donut Hole Size")
       /\ messages = <<>>

C4_Witness ==
    /\ PieReturned
    /\ x_col \in columns(df)
    /\ y_col = x_col
    /\ NRows(df) > 0
    /\ fig.kind = "pie"
    /\ fig.param = HoleDefault

IsOne(e) == ~e.nan /\ e.num > 0 /\ e.num * e.num = e.den2

\* the column has two present values that differ
Varies(d, name) ==
    \E i \in DOMAIN d :
        /\ d[i].name = name
        /\ \E k, l \in DOMAIN d[i].values :
              /\ ~d[i].values[k].null
              /\ ~d[i].values[l].null
              /\ d[i].values[k].num # d[i].values[l].num

Symmetric(z, N) == \A i \in N, j \in N : z[<<i, j>>] = z[<<j, i>>]

\* C5 as stated: the matrix of a rendered heatmap is symmetric and every
\* diagonal entry is 1.0.
C5_DiagonalAlwaysOne ==
    (HeatmapReturned /\ fig.kind = "imshow")
    => /\ Symmetric(fig.z, NumericNames(df))
       /\ \A i \in NumericNames(df) : IsOne(fig.z[<<i, i>>])

\* C5 amended: the matrix of a rendered heatmap is symmetric, NaN entries
\* included, and a diagonal entry is 1.0 exactly when its column has two
\* present values that differ; otherwise it is NaN.
C5_DiagonalOneOrNaN ==
    (HeatmapReturned /\ fig.kind = "imshow")
    => /\ Symmetric(fig.z, NumericNames(df))
       /\ \A i \in NumericNames(df) :
             IF Varies(df, i) THEN IsOne(fig.z[<<i, i>>]) ELSE fig.z[<<i, i>>].nan

C5_Witness ==
    /\ HeatmapReturned
    /\ fig.kind = "imshow"
    /\ \E i \in NumericNames(df), j \in NumericNames(df) :
          /\ IsOne(fig.z[<<i, i>>])
          /\ fig.z[<<j, j>>].nan
          /\ HasMissing(df, i)

\* what a builder that succeeded returns for DataFrame d
BuiltFigure(f, d) ==
    /\ f.kind \in {"line", "bar", "pie", "imshow"}
    /\ f.kind = "line"
       => /\ f.x \in columns(d) /\ f.y \in columns(d)
          /\ f.param \in LineWidthMin..LineWidthMax
          /\ f.z = EmptyMatrix
    /\ f.kind = "bar"
       => /\ f.x \in columns(d) /\ f.y \in columns(d)
          /\ f.text = f.y
          /\ f.z = EmptyMatrix
    /\ f.kind = "pie"
       => /\ f.x \in columns(d) /\ f.y \in columns(d)
          /\ ~HasMissing(d, f.x) /\ ~HasMissing(d, f.y)
          /\ f.param \in HoleMin..HoleMax
          /\ f.z = EmptyMatrix
    /\ f.kind = "imshow"
       => /\ NumericNames(d) # {}
          /\ DOMAIN f.z = NumericNames(d) \X NumericNames(d)
          /\ \A p \in DOMAIN f.z :
                \/ f.z[p].nan
                \/ f.z[p].den2 > 0 /\ f.z[p].num * f.z[p].num <= f.z[p].den2

\* C2: in every state of a run of main() after the builder has returned, the
\* figure is either absent or a complete figure of the DataFrame, and a run
\* that ends with the figure absent has shown at least one diagnostic.
C2_ChartOrDiagnostic ==
    (called = "main" /\ pc \in {"finish", "done"} /\ df # NoFile)
    => /\ fig = NoneFig \/ BuiltFigure(fig, df)
       /\ (pc = "done" /\ fig = NoneFig) => Len(Diagnostics(messages)) >= 1
       /\ (pc = "done" /\ fig # NoneFig) => rendered = fig

C2_Witness ==
    /\ called = "main"
    /\ pc = "done"
    /\ chart_type = "Pie Chart"
    /\ fig = NoneFig
    /\ Len(Diagnostics(messages)) = 2

\* the selections of a run for which the page is to show a chart
Suitable(d, type, x, y) ==
    CASE type = "Pie Chart" ->
            /\ x \in columns(d) /\ y \in columns(d)
            /\ ~HasMissing(d, x) /\ ~HasMissing(d, y)
      [] type = "Heatmap" -> NumericNames(d) # {}
      [] OTHER -> TRUE

ExpectedPalette(name) ==
    IF name \in ColorSchemeOptions
    THEN px_colors_sequential[name]
    ELSE px_colors_sequential["Plotly3"]

\* C6: no run of main() raises, and the outcome of every run with a file,
\* after a failed run or not, is decided by that run's DataFrame and
\* selections alone: a chart with the run's title and palette when they are
\* suitable, and a diagnostic and no chart when they are not.
C6_RunsAreIndependent ==
    /\ pc # "raised"
    /\ (called = "main" /\ pc = "done" /\ df # NoFile)
       => IF Suitable(df, chart_type, x_col, y_col)
          THEN /\ FigTruthy(rendered)
               /\ rendered.kind = CASE chart_type = "Line Chart" -> "line"
                                    [] chart_type = "Bar Chart"  -> "bar"
                                    [] chart_type = "Pie Chart"  -> "pie"
                                    [] OTHER                     -> "imshow"
               /\ rendered.title = chart_title
               /\ rendered.colorway = ExpectedPalette(color_scheme)
               /\ Diagnostics(messages) = <<>>
          ELSE /\ rendered = NoneFig
               /\ Len(Diagnostics(messages)) >= 1

C6_Witness ==
    /\ called = "main"
    /\ pc = "done"
    /\ prevFailed
    /\ chart_type = "Pie Chart"
    /\ FigTruthy(rendered)

Dispatched ==
    \/ called = "main" /\ pc \in {"finish", "done"} /\ df # NoFile
    \/ called = "generate_chart" /\ pc = "returned"

\* C7: a dispatch, in a run of main() or by a direct call of generate_chart,
\* invokes exactly one builder, the one of the chart type; for the line, bar
\* and pie types the builder receives the x and y that were selected, in a
\* run of main() those returned by get_axes; for the heatmap type main()
\* selects no axis (x = y = None) and the result is the one obtained with
\* x = y = None whatever x and y are passed.
C7_OneBuilderPerType ==
    Dispatched
    => LET b == BuilderCalls(trace)
       IN  /\ Len(b) = 1
           /\ b[1].op = BuilderOf(chart_type)
           /\ chart_type # "Heatmap"
              => /\ b[1].x = x_col
                 /\ b[1].y = y_col
                 /\ FigTruthy(fig) => fig.x = x_col /\ fig.y = y_col
                 /\ called = "main"
                    => /\ x_col \in columns(df)
                       /\ y_col \in columns(df)
                       /\ CallsOf(trace, "get_axes") = <<Call("get_axes", x_col, y_col)>>
           /\ chart_type = "Heatmap"
              => /\ called = "main"
                    => /\ x_col = None
                       /\ y_col = None
                       /\ ~Made(trace, "get_axes")
                 /\ pc # "done"
                    => LET r == generate_chart(DefaultSt, df, "Heatmap", None, None)
                       IN  fig = r.fig /\ Diagnostics(messages) = r.messages

C7_Witness ==
    /\ called = "generate_chart"
    /\ pc = "returned"
    /\ chart_type = "Heatmap"
    /\ x_col = "A"
    /\ y_col = "B"
    /\ fig.kind = "imshow"

\* C8: a call of apply_chart_customizations on an absent figure changes
\* nothing but the record of the call itself: the figure stays absent, no
\* message is written, nothing is rendered and nothing is raised; and a
\* finished run of main() has applied the style exactly when the builder
\* returned a figure, has rendered exactly then, and has rendered after the
\* style was applied.
C8_StyleOnlyOnFigure ==
    /\ [][(/\ called' = "apply_chart_customizations"
           /\ trace' # trace
           /\ ~FigTruthy(fig))
          => /\ fig' = fig
             /\ messages' = messages
             /\ rendered' = rendered
             /\ ret' = ret
             /\ pc' = "returned"
             /\ trace' = Append(trace, Call("apply_chart_customizations",
                                            chart_title', color_scheme'))]_vars
    /\ [](  (called = "main" /\ pc = "done" /\ df # NoFile)
            => /\ Made(trace, "apply_chart_customizations") <=> FigTruthy(fig)
               /\ Made(trace, "fig.update_layout") <=> FigTruthy(fig)
               /\ Made(trace, "st.plotly_chart") <=> FigTruthy(fig)
               /\ FigTruthy(rendered) <=> FigTruthy(fig)
               /\ FigTruthy(fig)
                  => \E i, j \in DOMAIN trace :
                        /\ i < j
                        /\ trace[i].op = "fig.update_layout"
                        /\ trace[j].op = "st.plotly_chart")

C8_Witness ==
    /\ called = "apply_chart_customizations"
    /\ pc = "returned"
    /\ fig = NoneFig
    /\ color_scheme = "not-a-real-name"
    /\ Applications(trace) = 1

\* C9: after any sequence of applications of the style to a figure, its
\* title and color sequence are those of the last application alone, and
\* applying the style once more with the same title and palette name leaves
\* the figure as it is.
C9_LastStyleWins ==
    (called = "apply_chart_customizations" /\ pc = "returned" /\ FigTruthy(fig))
    => /\ fig.title = chart_title
       /\ fig.colorway = ExpectedPalette(color_scheme)
       /\ apply_chart_customizations(fig, chart_title, color_scheme).fig = fig

C9_Witness ==
    /\ called = "apply_chart_customizations"
    /\ pc = "returned"
    /\ FigTruthy(fig)
    /\ Applications(trace) = 2
    /\ trace[1].x # chart_title
    /\ trace[1].y # color_scheme
    /\ fig.colorway = px_colors_sequential["Magma"]

\* C10: get_color_scale returns the palette of the name for each of the six
\* names and the Plotly3 palette for any other name, and writes no message
\* and raises nothing.
C10_PaletteFallback ==
    (called = "get_color_scale" /\ pc = "returned")
    => /\ color_scheme \in ColorSchemeOptions => ret = px_colors_sequential[color_scheme]
       /\ color_scheme \notin ColorSchemeOptions => ret = px_colors_sequential["Plotly3"]
       /\ messages = <<>>

C10_Witness ==
    /\ called = "get_color_scale"
    /\ pc = "returned"
    /\ color_scheme = "not-a-real-name"
    /\ ret = px_colors_sequential["Plotly3"]

====
